---- MODULE Spec2Model ----
(***************************************************************************)
(* The SWC Fantasy Football read-only API (chapter5/main.py) over the      *)
(* storage configured in chapter3/database.py.                             *)
(*                                                                         *)
(* The HTTP layer (route handlers, get_db) is translated from main.py.     *)
(* The query layer (module crud) and the row shapes (modules models and    *)
(* schemas) are imported by main.py and test_crud.py but are not part of   *)
(* the sources at hand; they are modelled from the specification           *)
(* (sections 3 and 4.1) and marked as such.                                *)
(*                                                                         *)
(* An optional value (Python's None or a value) is a sequence of length    *)
(* at most one: <<>> is None, <<v>> is v.                                  *)
(***************************************************************************)
EXTENDS Integers, Sequences, FiniteSets, TLC

VARIABLES
    players,        \* table Player, rows in primary-identifier order
    leagues,        \* table League
    teams,          \* table Team
    performances,   \* table Performance
    SessionLocal,   \* database.py: the process-wide session factory
    sessions,       \* every session SessionLocal() has created, by creation
    req             \* the requests: request id -> its progress

vars == <<players, leagues, teams, performances, SessionLocal, sessions, req>>

Storage == <<players, leagues, teams, performances>>

\* Largest number of rows of one table.
MaxRows == 2
\* Number of requests handled concurrently in SpecConc.
MaxReq == 2

None == <<>>
Some(v) == <<v>>

Min(a, b) == IF a < b THEN a ELSE b

-----------------------------------------------------------------------------
(* Data model (spec section 3).                                            *)

Dates == {1, 2}
FirstNames == {"Bryce", "Cam"}
LastNames == {"Young", "Ward"}
LeagueNames == {"Pigskin Prodigal Fantasy League", "Other League"}
TeamNames == {"Wolves", "Bears"}

PlayerIds == {1000 + i : i \in 1..MaxRows}
LeagueIds == {5000 + i : i \in 1..MaxRows}
TeamIds == {700 + i : i \in 1..MaxRows}
PerformanceIds == {10 + i : i \in 1..MaxRows}
\* An identifier no table holds (spec section 8: /v0/players/999999).
UnknownId == 999999

PlayerRows ==
    [player_id : PlayerIds, first_name : FirstNames, last_name : LastNames,
     last_changed_date : Dates]
LeagueRows ==
    [league_id : LeagueIds, league_name : LeagueNames, last_changed_date : Dates]
TeamRows ==
    [team_id : TeamIds, team_name : TeamNames, league_id : LeagueIds,
     last_changed_date : Dates]
PerformanceRows ==
    [performance_id : PerformanceIds, player_id : PlayerIds,
     last_changed_date : Dates]

\* The sequences of at most MaxRows rows.
RowSeqs(Rows) == UNION {[1..n -> Rows] : n \in 0..MaxRows}

\* The tables of at most MaxRows rows: identifiers unique, rows in
\* ascending identifier order.
PlayerTables ==
    {s \in RowSeqs(PlayerRows) :
        \A i \in 1..(Len(s) - 1) : s[i].player_id < s[i + 1].player_id}
LeagueTables ==
    {s \in RowSeqs(LeagueRows) :
        \A i \in 1..(Len(s) - 1) : s[i].league_id < s[i + 1].league_id}
TeamTables ==
    {s \in RowSeqs(TeamRows) :
        \A i \in 1..(Len(s) - 1) : s[i].team_id < s[i + 1].team_id}
PerformanceTables ==
    {s \in RowSeqs(PerformanceRows) :
        \A i \in 1..(Len(s) - 1) : s[i].performance_id < s[i + 1].performance_id}

FixturePlayers ==
    << [player_id |-> 1001, first_name |-> "Bryce", last_name |-> "Young",
        last_changed_date |-> 2],
       [player_id |-> 1002, first_name |-> "Cam", last_name |-> "Young",
        last_changed_date |-> 1] >>
FixtureLeagues ==
    << [league_id |-> 5001, league_name |-> "Pigskin Prodigal Fantasy League",
        last_changed_date |-> 1],
       [league_id |-> 5002, league_name |-> "Other League",
        last_changed_date |-> 2] >>
FixtureTeams ==
    << [team_id |-> 701, team_name |-> "Wolves", league_id |-> 5001,
        last_changed_date |-> 1],
       [team_id |-> 702, team_name |-> "Bears", league_id |-> 5002,
        last_changed_date |-> 2] >>
FixturePerformances ==
    << [performance_id |-> 11, player_id |-> 1001, last_changed_date |-> 1],
       [performance_id |-> 12, player_id |-> 1001, last_changed_date |-> 2] >>

HasLeague(ls, id) == \E i \in 1..Len(ls) : ls[i].league_id = id
HasPlayer(ps, id) == \E i \in 1..Len(ps) : ps[i].player_id = id

\* Spec section 3: a Team's league and a Performance's player exist.
Integrity(ps, ls, ts, fs) ==
    /\ \A i \in 1..Len(ts) : HasLeague(ls, ts[i].league_id)
    /\ \A i \in 1..Len(fs) : HasPlayer(ps, fs[i].player_id)

TeamsOf(ls) ==
    LET Kept(t) == HasLeague(ls, t.league_id) IN SelectSeq(FixtureTeams, Kept)
PerformancesOf(ps) ==
    LET Kept(f) == HasPlayer(ps, f.player_id) IN SelectSeq(FixturePerformances, Kept)

\* The seeded storage contents: one table ranges over every table of its
\* shape, the others hold the fixture rows that still resolve.
SeededStorage ==
    /\ \/ /\ players \in PlayerTables
          /\ leagues = FixtureLeagues
          /\ teams = FixtureTeams
          /\ performances = PerformancesOf(players)
       \/ /\ players = FixturePlayers
          /\ leagues \in LeagueTables
          /\ teams = TeamsOf(leagues)
          /\ performances = FixturePerformances
       \/ /\ players = FixturePlayers
          /\ leagues = FixtureLeagues
          /\ teams \in {t \in TeamTables :
                            Integrity(FixturePlayers, FixtureLeagues, t, <<>>)}
          /\ performances = FixturePerformances
       \/ /\ players = FixturePlayers
          /\ leagues = FixtureLeagues
          /\ teams = FixtureTeams
          /\ performances \in {f \in PerformanceTables :
                            Integrity(FixturePlayers, FixtureLeagues, <<>>, f)}

-----------------------------------------------------------------------------
(* Query layer: module crud, modelled from spec section 4.1.               *)

\* OFFSET skip of the storage engine (database.py line 6: SQLite): the
\* first skip rows are discarded; a negative offset discards none.
Offset(rows, skip) ==
    IF skip <= 0 THEN rows
    ELSE IF skip >= Len(rows) THEN <<>>
    ELSE SubSeq(rows, skip + 1, Len(rows))

\* LIMIT limit of the storage engine: at most limit rows are kept; a
\* negative limit is no upper bound.
Limit(rows, limit) ==
    IF limit < 0 THEN rows ELSE SubSeq(rows, 1, Min(limit, Len(rows)))

Page(rows, skip, limit) == Limit(Offset(rows, skip), limit)

\* A supplied minimum date keeps the rows changed on that date or later.
DateOk(row, min_last_changed_date) ==
    \/ min_last_changed_date = None
    \/ row.last_changed_date >= min_last_changed_date[1]

\* A supplied equality filter keeps the rows holding exactly that value.
FieldOk(value, filter) == filter = None \/ value = filter[1]

get_players(skip, limit, min_last_changed_date, first_name, last_name) ==
    LET Keep(p) == /\ DateOk(p, min_last_changed_date)
                   /\ FieldOk(p.first_name, first_name)
                   /\ FieldOk(p.last_name, last_name)
    IN  Page(SelectSeq(players, Keep), skip, limit)

get_performances(skip, limit, min_last_changed_date) ==
    LET Keep(f) == DateOk(f, min_last_changed_date)
    IN  Page(SelectSeq(performances, Keep), skip, limit)

get_leagues(skip, limit, min_last_changed_date, league_name) ==
    LET Keep(l) == /\ DateOk(l, min_last_changed_date)
                   /\ FieldOk(l.league_name, league_name)
    IN  Page(SelectSeq(leagues, Keep), skip, limit)

get_teams(skip, limit, min_last_changed_date, team_name, league_id) ==
    LET Keep(t) == /\ DateOk(t, min_last_changed_date)
                   /\ FieldOk(t.team_name, team_name)
                   /\ FieldOk(t.league_id, league_id)
    IN  Page(SelectSeq(teams, Keep), skip, limit)

\* The first row of the table, whatever its identifier.
get_player_unfiltered(player_id) ==
    IF players = <<>> THEN None ELSE Some(Head(players))

\* The first row with the identifier, or None.
get_player(player_id) ==
    LET Keep(p) == p.player_id = player_id
        found == SelectSeq(players, Keep)
    IN  IF found = <<>> THEN None ELSE Some(Head(found))

get_league(league_id) ==
    LET Keep(l) == l.league_id = league_id
        found == SelectSeq(leagues, Keep)
    IN  IF found = <<>> THEN None ELSE Some(Head(found))

get_player_count == Len(players)
get_team_count == Len(teams)
get_league_count == Len(leagues)

-----------------------------------------------------------------------------
(* HTTP layer: chapter5/main.py.                                           *)

Response(status, body) == [status |-> status, body |-> body]

\* raise HTTPException(status_code=..., detail=...)
HTTPException(status_code, detail) ==
    Response(status_code, [detail |-> detail])

\* An exception no handler catches (a storage error) ends the request
\* with a 500-class response.
ServerError == Response(500, [detail |-> "Internal Server Error"])

\* A parameter that does not parse ends the request with 422.
ValidationError == Response(422, [detail |-> "Unprocessable Entity"])

\* main.py 46-47
root_response == Response(200, [message |-> "API health check successful"])

\* main.py 63-68: the query parameters, forwarded by keyword.
read_players_call(skip, limit, minimum_last_changed_date, first_name, last_name) ==
    get_players(skip, limit, minimum_last_changed_date, first_name, last_name)

\* The date filter is not forwarded.
read_performances_call_no_date(skip, limit, minimum_last_changed_date) ==
    get_performances(skip, limit, None)

\* main.py 97-100
read_performances_call(skip, limit, minimum_last_changed_date) ==
    get_performances(skip, limit, minimum_last_changed_date)

\* main.py 129-133
read_leagues_call(skip, limit, minimum_last_changed_date, league_name) ==
    get_leagues(skip, limit, minimum_last_changed_date, league_name)

\* The league filter is not forwarded.
read_teams_call_no_league(skip, limit, minimum_last_changed_date, team_name, league_id) ==
    get_teams(skip, limit, minimum_last_changed_date, team_name, None)

\* main.py 149-154
read_teams_call(skip, limit, minimum_last_changed_date, team_name, league_id) ==
    get_teams(skip, limit, minimum_last_changed_date, team_name, league_id)

\* The league endpoint's message in the player endpoint.
read_player_response_league_detail(player) ==
    IF player = None THEN HTTPException(404, "League not found")
    ELSE Response(200, player[1])

\* main.py 82-84
read_player_response(player) ==
    IF player = None THEN HTTPException(404, "Player not found")
    ELSE Response(200, player[1])

\* main.py 113-115
read_league_response(league) ==
    IF league = None THEN HTTPException(404, "League not found")
    ELSE Response(200, league[1])

\* The league and team counts exchanged.
get_count_response_swapped(league_count, team_count, player_count) ==
    Response(200, [league_count |-> team_count,
                   team_count |-> league_count,
                   player_count |-> player_count])

\* main.py 165-169
get_count_response(league_count, team_count, player_count) ==
    Response(200, [league_count |-> league_count,
                   team_count |-> team_count,
                   player_count |-> player_count])

-----------------------------------------------------------------------------
(* Sessions (database.py 8-11, main.py 33-38).                             *)

\* database.py 8-11: sessionmaker(autocommit=False, autoflush=False,
\* bind=engine) over the engine of SQLALCHEMY_DATABASE_URL.
SessionFactory ==
    [bind |-> "sqlite:///./fantasy_data.db",
     autocommit |-> FALSE, autoflush |-> FALSE]

\* A session as the model observes it: the request get_db created it for,
\* whether it is open, how often it was closed, the requests that read
\* through it, and the reads made through it while it was closed.
NewSession(r) ==
    [owner |-> r, open |-> TRUE, closes |-> 0, readers |-> {}, stale |-> 0]

\* A second session is created beside the one that is yielded.
AcquireSessionTwice(ss, r) ==
    [sid |-> Len(ss) + 1, created |-> 2,
     sessions |-> Append(Append(ss, NewSession(r)), NewSession(r))]

\* One module-level session, created by the first call and handed to
\* every later one.
AcquireSharedSession(ss, r) ==
    IF ss = <<>>
    THEN [sid |-> 1, created |-> 1, sessions |-> <<NewSession(r)>>]
    ELSE [sid |-> 1, created |-> 0, sessions |-> ss]

\* main.py 34: db = SessionLocal(), a new session on every call.
AcquireSession(ss, r) ==
    [sid |-> Len(ss) + 1, created |-> 1, sessions |-> Append(ss, NewSession(r))]

\* n reads by request r through session sid.
SessionRead(ss, sid, r, n) ==
    [ss EXCEPT ![sid].readers = @ \cup (IF n > 0 THEN {r} ELSE {}),
               ![sid].stale = @ + (IF ss[sid].open THEN 0 ELSE n)]

\* main.py 38: db.close()
SessionClose(ss, sid) ==
    [ss EXCEPT ![sid].open = FALSE, ![sid].closes = @ + 1]

\* No try/finally around the yield: db.close() runs only after the
\* handler returned.
close_after_return_only(outcome) == outcome = "return"

\* main.py 35-38: try / yield / finally: db.close() runs whether the
\* handler returned or raised.
finally_runs(outcome) == outcome \in {"return", "raise"}

-----------------------------------------------------------------------------
(* Requests.                                                               *)

Endpoints ==
    {"root", "read_players", "read_player", "read_performances",
     "read_league", "read_leagues", "read_teams", "get_count"}

\* The endpoints declaring db: Session = Depends(get_db): all but root
\* (main.py 46).
DbEndpoints == Endpoints \ {"root"}

\* The endpoints declaring Query or Path parameters.
ParamEndpoints == DbEndpoints \ {"get_count"}

ListEndpoints == {"read_players", "read_performances", "read_leagues", "read_teams"}

\* main.py 56-57: skip: int = Query(0), limit: int = Query(100).
DefaultSkip == 0
DefaultLimit == 100

NewRequest ==
    [pc |-> "idle", ep |-> "", params |-> <<>>, db |-> None,
     result |-> None, resp |-> None, reads |-> 0, acquired |-> 0]

\* The request after its handler ran with parameters q and made `reads`
\* reads: failed is TRUE when a read raised a storage error, which no
\* handler catches.
Handled(rec, q, failed, reads, result, resp) ==
    [rec EXCEPT !.pc = "handled", !.params = q, !.reads = @ + reads,
                !.result = IF failed THEN None ELSE Some(result),
                !.resp = Some(IF failed THEN ServerError ELSE resp)]

\* Whether the handler returned or raised (HTTPException, storage error,
\* validation error).
Outcome(rec) == IF rec.resp[1].status = 200 THEN "return" ELSE "raise"

\* A handler that stamps the rows it read with the current date.
StampsPlayers ==
    /\ players' = [i \in DOMAIN players |->
                      [players[i] EXCEPT !.last_changed_date = 2]]
    /\ UNCHANGED <<leagues, teams, performances>>

\* The handlers call only the read functions of crud (main.py 40-169):
\* no table changes.
ReadOnly == UNCHANGED <<players, leagues, teams, performances>>

\* The parameter values the requests are drawn from.
FullWorkload ==
    [skips |-> {-1, 0, 1, 2},
     limits |-> {-1, 0, 1, DefaultLimit},
     dates |-> {None} \cup {Some(d) : d \in Dates},
     first_names |-> {None, Some("Bryce")},
     last_names |-> {None, Some("Young")},
     league_names |-> {None, Some("Pigskin Prodigal Fantasy League")},
     team_names |-> {None, Some("Wolves")},
     league_ids |-> {None, Some(5001)},
     player_id |-> PlayerIds \cup {UnknownId},
     league_id |-> LeagueIds \cup {UnknownId},
     failures |-> BOOLEAN]

LightWorkload ==
    [skips |-> {DefaultSkip},
     limits |-> {DefaultLimit},
     dates |-> {None},
     first_names |-> {None},
     last_names |-> {None},
     league_names |-> {None},
     team_names |-> {None},
     league_ids |-> {None},
     player_id |-> {1001, UnknownId},
     league_id |-> {5001, UnknownId},
     failures |-> BOOLEAN]

-----------------------------------------------------------------------------
(* The steps of a request.                                                 *)

\* A request for endpoint ep is routed.
Arrive(r) ==
    /\ req[r].pc = "idle"
    /\ \E ep \in Endpoints :
          req' = [req EXCEPT ![r].pc = "routed", ![r].ep = ep]
    /\ UNCHANGED <<players, leagues, teams, performances, SessionLocal, sessions>>

\* main.py 33-36: the dependency get_db runs up to its yield.
get_db_enter(r) ==
    /\ req[r].pc = "routed"
    /\ req[r].ep \in DbEndpoints
    /\ LET a == AcquireSession(sessions, r) IN
          /\ sessions' = a.sessions
          /\ req' = [req EXCEPT ![r].pc = "ready", ![r].db = Some(a.sid),
                                ![r].acquired = @ + a.created]
    /\ UNCHANGED <<players, leagues, teams, performances, SessionLocal>>

\* A query or path parameter does not parse (spec section 7): the handler
\* is not called.  The framework may find this before or after it has
\* run get_db.
Reject422(r) ==
    /\ req[r].pc \in {"routed", "ready"}
    /\ req[r].ep \in ParamEndpoints
    /\ req' = [req EXCEPT ![r].pc = IF req[r].db = None THEN "done" ELSE "handled",
                          ![r].resp = Some(ValidationError)]
    /\ UNCHANGED <<players, leagues, teams, performances, SessionLocal, sessions>>

\* main.py 37-38: get_db resumes after the handler returned or raised.
get_db_exit(r) ==
    /\ req[r].pc = "handled"
    /\ sessions' = IF finally_runs(Outcome(req[r]))
                   THEN SessionClose(sessions, req[r].db[1])
                   ELSE sessions
    /\ req' = [req EXCEPT ![r].pc = "done"]
    /\ UNCHANGED <<players, leagues, teams, performances, SessionLocal>>

\* main.py 46-47
root(r) ==
    /\ req[r].pc = "routed"
    /\ req[r].ep = "root"
    /\ req' = [req EXCEPT ![r].pc = "done", ![r].resp = Some(root_response)]
    /\ ReadOnly
    /\ UNCHANGED <<SessionLocal, sessions>>

\* main.py 56-69
read_players(r, W) ==
    /\ req[r].pc = "ready"
    /\ req[r].ep = "read_players"
    /\ \E skip \in W.skips, limit \in W.limits, d \in W.dates,
          fn \in W.first_names, ln \in W.last_names, failed \in W.failures :
          LET q == [skip |-> skip, limit |-> limit,
                    minimum_last_changed_date |-> d,
                    first_name |-> fn, last_name |-> ln]
              rows == read_players_call(skip, limit, d, fn, ln)
          IN  req' = [req EXCEPT ![r] =
                         Handled(@, q, failed, 1, rows, Response(200, rows))]
    /\ sessions' = SessionRead(sessions, req[r].db[1], r, 1)
    /\ ReadOnly
    /\ UNCHANGED SessionLocal

\* main.py 78-84
read_player(r, W) ==
    /\ req[r].pc = "ready"
    /\ req[r].ep = "read_player"
    /\ \E player_id \in W.player_id, failed \in W.failures :
          LET q == [player_id |-> player_id]
              player == get_player(player_id)
          IN  req' = [req EXCEPT ![r] =
                         Handled(@, q, failed, 1, player, read_player_response(player))]
    /\ sessions' = SessionRead(sessions, req[r].db[1], r, 1)
    /\ ReadOnly
    /\ UNCHANGED SessionLocal

\* main.py 93-101
read_performances(r, W) ==
    /\ req[r].pc = "ready"
    /\ req[r].ep = "read_performances"
    /\ \E skip \in W.skips, limit \in W.limits, d \in W.dates,
          failed \in W.failures :
          LET q == [skip |-> skip, limit |-> limit,
                    minimum_last_changed_date |-> d]
              rows == read_performances_call(skip, limit, d)
          IN  req' = [req EXCEPT ![r] =
                         Handled(@, q, failed, 1, rows, Response(200, rows))]
    /\ sessions' = SessionRead(sessions, req[r].db[1], r, 1)
    /\ ReadOnly
    /\ UNCHANGED SessionLocal

\* main.py 110-115
read_league(r, W) ==
    /\ req[r].pc = "ready"
    /\ req[r].ep = "read_league"
    /\ \E league_id \in W.league_id, failed \in W.failures :
          LET q == [league_id |-> league_id]
              league == get_league(league_id)
          IN  req' = [req EXCEPT ![r] =
                         Handled(@, q, failed, 1, league, read_league_response(league))]
    /\ sessions' = SessionRead(sessions, req[r].db[1], r, 1)
    /\ ReadOnly
    /\ UNCHANGED SessionLocal

\* main.py 124-134
read_leagues(r, W) ==
    /\ req[r].pc = "ready"
    /\ req[r].ep = "read_leagues"
    /\ \E skip \in W.skips, limit \in W.limits, d \in W.dates,
          name \in W.league_names, failed \in W.failures :
          LET q == [skip |-> skip, limit |-> limit,
                    minimum_last_changed_date |-> d, league_name |-> name]
              rows == read_leagues_call(skip, limit, d, name)
          IN  req' = [req EXCEPT ![r] =
                         Handled(@, q, failed, 1, rows, Response(200, rows))]
    /\ sessions' = SessionRead(sessions, req[r].db[1], r, 1)
    /\ ReadOnly
    /\ UNCHANGED SessionLocal

\* main.py 143-155
read_teams(r, W) ==
    /\ req[r].pc = "ready"
    /\ req[r].ep = "read_teams"
    /\ \E skip \in W.skips, limit \in W.limits, d \in W.dates,
          name \in W.team_names, league_id \in W.league_ids,
          failed \in W.failures :
          LET q == [skip |-> skip, limit |-> limit,
                    minimum_last_changed_date |-> d, team_name |-> name,
                    league_id |-> league_id]
              rows == read_teams_call(skip, limit, d, name, league_id)
          IN  req' = [req EXCEPT ![r] =
                         Handled(@, q, failed, 1, rows, Response(200, rows))]
    /\ sessions' = SessionRead(sessions, req[r].db[1], r, 1)
    /\ ReadOnly
    /\ UNCHANGED SessionLocal

\* main.py 164-169: the three counts are read in the order the keyword
\* arguments are written; `done` of them return before one raises
\* (all three when none does).
get_count(r, W) ==
    /\ req[r].pc = "ready"
    /\ req[r].ep = "get_count"
    /\ \E done \in {n \in 0..3 : n = 3 \/ TRUE \in W.failures} :
          LET reads == Min(done + 1, 3)
              counts == get_count_response(get_league_count, get_team_count,
                                           get_player_count)
          IN  /\ req' = [req EXCEPT ![r] =
                            Handled(@, <<>>, done < 3, reads, counts.body, counts)]
              /\ sessions' = SessionRead(sessions, req[r].db[1], r, reads)
    /\ ReadOnly
    /\ UNCHANGED SessionLocal

-----------------------------------------------------------------------------
(* Spec: one request, with every parameter combination of FullWorkload,   *)
(* over every seeded storage.                                              *)

Init ==
    /\ SeededStorage
    /\ SessionLocal = SessionFactory
    /\ sessions = <<>>
    /\ req = [r \in {1} |-> NewRequest]

Next ==
    \/ \E r \in DOMAIN req : Arrive(r)
    \/ \E r \in DOMAIN req : get_db_enter(r)
    \/ \E r \in DOMAIN req : Reject422(r)
    \/ \E r \in DOMAIN req : root(r)
    \/ \E r \in DOMAIN req : read_players(r, FullWorkload)
    \/ \E r \in DOMAIN req : read_player(r, FullWorkload)
    \/ \E r \in DOMAIN req : read_performances(r, FullWorkload)
    \/ \E r \in DOMAIN req : read_league(r, FullWorkload)
    \/ \E r \in DOMAIN req : read_leagues(r, FullWorkload)
    \/ \E r \in DOMAIN req : read_teams(r, FullWorkload)
    \/ \E r \in DOMAIN req : get_count(r, FullWorkload)
    \/ \E r \in DOMAIN req : get_db_exit(r)

Spec == Init /\ [][Next]_vars

(* SpecConc: MaxReq requests handled concurrently, their steps             *)
(* interleaved in any order, over the fixture storage.                     *)

InitConc ==
    /\ players = FixturePlayers
    /\ leagues = FixtureLeagues
    /\ teams = FixtureTeams
    /\ performances = FixturePerformances
    /\ SessionLocal = SessionFactory
    /\ sessions = <<>>
    /\ req = [r \in 1..MaxReq |-> NewRequest]

NextConc ==
    \/ \E r \in DOMAIN req : Arrive(r)
    \/ \E r \in DOMAIN req : get_db_enter(r)
    \/ \E r \in DOMAIN req : Reject422(r)
    \/ \E r \in DOMAIN req : root(r)
    \/ \E r \in DOMAIN req : read_players(r, LightWorkload)
    \/ \E r \in DOMAIN req : read_player(r, LightWorkload)
    \/ \E r \in DOMAIN req : read_performances(r, LightWorkload)
    \/ \E r \in DOMAIN req : read_league(r, LightWorkload)
    \/ \E r \in DOMAIN req : read_leagues(r, LightWorkload)
    \/ \E r \in DOMAIN req : read_teams(r, LightWorkload)
    \/ \E r \in DOMAIN req : get_count(r, LightWorkload)
    \/ \E r \in DOMAIN req : get_db_exit(r)

SpecConc == InitConc /\ [][NextConc]_vars

-----------------------------------------------------------------------------
(* What the claims speak about.                                            *)

Requests == DOMAIN req

\* The handler's lookup or query returned (it did not raise, and the
\* request was not rejected before the handler).
Returned(r) == req[r].result # None

Done(r) == req[r].pc = "done"

\* The table a list endpoint reads.
TableOf(ep) ==
    CASE ep = "read_players" -> players
      [] ep = "read_performances" -> performances
      [] ep = "read_leagues" -> leagues
      [] ep = "read_teams" -> teams

KeyOf(ep, row) ==
    CASE ep = "read_players" -> row.player_id
      [] ep = "read_performances" -> row.performance_id
      [] ep = "read_leagues" -> row.league_id
      [] ep = "read_teams" -> row.team_id

\* The row satisfies the date filter of query q, when q supplies one.
DateFilterOk(q, row) ==
    \/ q.minimum_last_changed_date = None
    \/ row.last_changed_date >= q.minimum_last_changed_date[1]

\* The row satisfies every filter of q other than the date, when supplied.
OtherFiltersOk(ep, q, row) ==
    CASE ep = "read_players" ->
            /\ (q.first_name # None => row.first_name = q.first_name[1])
            /\ (q.last_name # None => row.last_name = q.last_name[1])
      [] ep = "read_performances" -> TRUE
      [] ep = "read_leagues" ->
            (q.league_name # None => row.league_name = q.league_name[1])
      [] ep = "read_teams" ->
            /\ (q.team_name # None => row.team_name = q.team_name[1])
            /\ (q.league_id # None => row.league_id = q.league_id[1])

Satisfies(ep, q, row) == DateFilterOk(q, row) /\ OtherFiltersOk(ep, q, row)

\* The rows of the endpoint's table that satisfy q, in table order.
FilteredRows(ep, q) ==
    LET Keep(row) == Satisfies(ep, q, row) IN SelectSeq(TableOf(ep), Keep)

InSeq(row, rows) == \E i \in 1..Len(rows) : rows[i] = row

\* The rows at the 0-based positions skip .. skip+limit-1 of rows.
Window(rows, skip, limit) ==
    LET lo == IF skip + 1 < 1 THEN 1 ELSE skip + 1
        hi == Min(skip + limit, Len(rows))
    IN  IF lo > hi THEN <<>> ELSE SubSeq(rows, lo, hi)

\* The query asks for the whole result: nothing skipped, and a limit no
\* table exceeds.
Unpaginated(q) == q.skip = 0 /\ q.limit = DefaultLimit

\* A list request whose query returned.
ListReturned(r) == req[r].ep \in ListEndpoints /\ Returned(r)

-----------------------------------------------------------------------------
(* Claims checked under Spec.                                              *)

SingleEndpoints == {"read_player", "read_league"}

NotFoundDetail(ep) ==
    IF ep = "read_player" THEN "Player not found" ELSE "League not found"

\* C1: on /v0/players/{id} and /v0/leagues/{id}, for every identifier and
\* storage content, the response is 404 with the endpoint's fixed message
\* exactly when the lookup returned not-found, and is otherwise 200 with
\* the entity the lookup returned; every such request has exactly one of
\* the two outcomes.
C1_SingleEntityOutcome ==
    \A r \in Requests :
        (req[r].ep \in SingleEndpoints /\ Returned(r)) =>
            LET found == req[r].result[1]
                resp == req[r].resp[1]
            IN  /\ resp.status \in {200, 404}
                /\ (resp.status = 404) <=> (found = None)
                /\ (found = None) =>
                      resp = [status |-> 404,
                              body |-> [detail |-> NotFoundDetail(req[r].ep)]]
                /\ (found # None) =>
                      resp = [status |-> 200, body |-> found[1]]

\* A player lookup reported not-found and the request ended.
C1_Witness ==
    \E r \in Requests :
        /\ Done(r) /\ req[r].ep = "read_player" /\ Returned(r)
        /\ req[r].result[1] = None
        /\ req[r].params.player_id \in PlayerIds
        /\ req[r].resp[1].status = 404

\* C2: for every identifier i and storage content, get_player(i) and
\* get_league(i) return the entity whose identifier is exactly i when one
\* exists, and the not-found signal when none does.
C2_LookupById ==
    \A r \in Requests :
        /\ (req[r].ep = "read_player" /\ Returned(r)) =>
              LET id == req[r].params.player_id
                  found == req[r].result[1]
              IN  IF \E i \in 1..Len(players) : players[i].player_id = id
                  THEN /\ found # None
                       /\ found[1].player_id = id
                       /\ InSeq(found[1], players)
                  ELSE found = None
        /\ (req[r].ep = "read_league" /\ Returned(r)) =>
              LET id == req[r].params.league_id
                  found == req[r].result[1]
              IN  IF \E i \in 1..Len(leagues) : leagues[i].league_id = id
                  THEN /\ found # None
                       /\ found[1].league_id = id
                       /\ InSeq(found[1], leagues)
                  ELSE found = None

\* The second player of a two-row table was looked up and returned.
C2_Witness ==
    \E r \in Requests :
        /\ Done(r) /\ req[r].ep = "read_player" /\ Returned(r)
        /\ Len(players) = 2
        /\ req[r].params.player_id = players[2].player_id
        /\ req[r].result[1] = Some(players[2])

\* The rows are in ascending primary-identifier order.
Ascending(ep, rows) ==
    \A i \in 1..(Len(rows) - 1) : KeyOf(ep, rows[i]) < KeyOf(ep, rows[i + 1])

\* C3: for every list operation and every skip and limit the HTTP layer
\* accepts and forwards, the returned sequence has at most limit rows and
\* equals the rows at positions skip .. skip+limit-1 of the filtered rows
\* in ascending primary-identifier order.
C3_Pagination ==
    \A r \in Requests :
        ListReturned(r) =>
            LET q == req[r].params
                rows == req[r].resp[1].body
            IN  /\ Len(rows) <= q.limit
                /\ rows = Window(FilteredRows(req[r].ep, q), q.skip, q.limit)
                /\ Ascending(req[r].ep, rows)

\* C3, for the skip and limit values of the query layer's contract
\* (skip not negative, limit not negative): the same statement.
C3_PaginationInRange ==
    \A r \in Requests :
        (ListReturned(r) /\ req[r].params.skip >= 0 /\ req[r].params.limit >= 0) =>
            LET q == req[r].params
                rows == req[r].resp[1].body
            IN  /\ Len(rows) <= q.limit
                /\ rows = Window(FilteredRows(req[r].ep, q), q.skip, q.limit)
                /\ Ascending(req[r].ep, rows)

\* The second page of one row of a two-row result.
C3_InRangeWitness ==
    \E r \in Requests :
        /\ Done(r) /\ req[r].ep = "read_players" /\ Returned(r)
        /\ req[r].params.skip = 1 /\ req[r].params.limit = 1
        /\ Len(FilteredRows("read_players", req[r].params)) = 2
        /\ req[r].resp[1].body = <<players[2]>>

\* C4: for every list operation, when minimum_last_changed_date is
\* supplied every returned row was changed on that date or later and no
\* row changed on that date or later is excluded by the date filter; when
\* it is omitted the date excludes no row.
C4_DateFilter ==
    \A r \in Requests :
        ListReturned(r) =>
            LET ep == req[r].ep
                q == req[r].params
                rows == req[r].resp[1].body
                table == TableOf(ep)
            IN  /\ q.minimum_last_changed_date # None =>
                      \A i \in 1..Len(rows) :
                          rows[i].last_changed_date >= q.minimum_last_changed_date[1]
                /\ Unpaginated(q) =>
                      \A i \in 1..Len(table) :
                          (/\ OtherFiltersOk(ep, q, table[i])
                           /\ \/ q.minimum_last_changed_date = None
                              \/ table[i].last_changed_date >=
                                     q.minimum_last_changed_date[1])
                              => InSeq(table[i], rows)

\* Performances since date 2: the row changed on date 2 is returned, the
\* row changed on date 1 is not.
C4_Witness ==
    \E r \in Requests :
        /\ Done(r) /\ req[r].ep = "read_performances" /\ Returned(r)
        /\ req[r].params.minimum_last_changed_date = Some(2)
        /\ Unpaginated(req[r].params)
        /\ Len(req[r].resp[1].body) = 1
        /\ req[r].resp[1].body[1].last_changed_date = 2
        /\ \E i \in 1..Len(performances) : performances[i].last_changed_date = 1

\* C5: for every list operation and every combination of supplied
\* filters, a row is in the unpaginated result exactly when it satisfies
\* every supplied filter; an omitted filter excludes no row.  (Every row
\* of any page satisfies every supplied filter.)
C5_FilterConjunction ==
    \A r \in Requests :
        ListReturned(r) =>
            LET ep == req[r].ep
                q == req[r].params
                rows == req[r].resp[1].body
                table == TableOf(ep)
            IN  /\ \A i \in 1..Len(rows) :
                      InSeq(rows[i], table) /\ Satisfies(ep, q, rows[i])
                /\ Unpaginated(q) =>
                      \A i \in 1..Len(table) :
                          InSeq(table[i], rows) <=> Satisfies(ep, q, table[i])

\* Teams filtered by name and league: a team of that name in another
\* league is left out, the team of that name in the league is returned.
C5_Witness ==
    \E r \in Requests :
        /\ Done(r) /\ req[r].ep = "read_teams" /\ Returned(r)
        /\ Unpaginated(req[r].params)
        /\ req[r].params.team_name = Some("Wolves")
        /\ req[r].params.league_id = Some(5001)
        /\ Len(req[r].resp[1].body) = 1
        /\ \E i \in 1..Len(teams) :
              teams[i].team_name = "Wolves" /\ teams[i].league_id # 5001

\* C6: for every storage content each count operation returns the length
\* of the corresponding list operation called with no filter and a limit
\* no smaller than the table, and the /v0/counts response carries the
\* three numbers as player_count, team_count and league_count.
C6_Counts ==
    /\ get_player_count = Len(get_players(0, DefaultLimit, None, None, None))
    /\ get_team_count = Len(get_teams(0, DefaultLimit, None, None, None))
    /\ get_league_count = Len(get_leagues(0, DefaultLimit, None, None))
    /\ \A r \in Requests :
          (req[r].ep = "get_count" /\ Returned(r)) =>
              LET body == req[r].resp[1].body IN
                  /\ req[r].resp[1].status = 200
                  /\ body.player_count =
                         Len(get_players(0, DefaultLimit, None, None, None))
                  /\ body.team_count =
                         Len(get_teams(0, DefaultLimit, None, None, None))
                  /\ body.league_count =
                         Len(get_leagues(0, DefaultLimit, None, None))

\* /v0/counts answered over tables of three different sizes.
C6_Witness ==
    \E r \in Requests :
        /\ Done(r) /\ req[r].ep = "get_count" /\ Returned(r)
        /\ Len(leagues) # Len(teams)
        /\ Len(teams) # Len(players)
        /\ req[r].resp[1].body.team_count = Len(teams)

-----------------------------------------------------------------------------
(* Claims about sessions and about requests handled side by side.          *)

\* The handler of request r ran (the request was not rejected with 422
\* before it).
HandlerRan(r) ==
    /\ req[r].resp # None
    /\ req[r].resp[1].status # 422

\* Two requests ask the same thing: the same endpoint with the same
\* parameters, and the reads of both returned.
SameRequest(a, b) ==
    /\ req[a].ep = req[b].ep
    /\ HandlerRan(a) /\ HandlerRan(b)
    /\ req[a].ep # "root" => (Returned(a) /\ Returned(b))
    /\ req[a].params = req[b].params

\* Repeating a request against the same storage yields the same response.
Repeatable ==
    \A a, b \in Requests :
        SameRequest(a, b) =>
            /\ req[a].resp[1].status = req[b].resp[1].status
            /\ req[a].resp[1].body = req[b].resp[1].body

\* C7: after any sequence of requests to any of the eight endpoints, with
\* any parameters and any outcome (200, 404, 422, storage failure), the
\* stored Player, League, Team and Performance rows are unchanged; so
\* repeating a request against the same storage yields the same response.
C7_ReadOnly == [][Storage' = Storage]_vars /\ []Repeatable

\* The same unknown player asked for twice, 404 both times, beside
\* unchanged tables.
C7_Witness ==
    \E a, b \in Requests :
        /\ a # b /\ Done(a) /\ Done(b)
        /\ req[a].ep = "read_player" /\ SameRequest(a, b)
        /\ req[a].resp[1].status = 404
        /\ players = FixturePlayers

\* C8: every session get_db acquired is closed exactly once, whether the
\* handler returned, raised the 404 HTTPException or failed with a storage
\* error; no session stays open after its request has ended, and no
\* session is used after it was closed.
C8_SessionClosedOnce ==
    \A s \in 1..Len(sessions) :
        /\ sessions[s].closes <= 1
        /\ sessions[s].open <=> (sessions[s].closes = 0)
        /\ sessions[s].stale = 0
        /\ Done(sessions[s].owner) =>
              (~sessions[s].open /\ sessions[s].closes = 1)

\* One request ended with 404 and another with a storage error, and the
\* session of each is closed.
C8_Witness ==
    \E a, b \in Requests :
        /\ Done(a) /\ Done(b)
        /\ req[a].resp[1].status = 404
        /\ req[b].resp[1].status = 500
        /\ req[a].db # None /\ req[b].db # None
        /\ sessions[req[a].db[1]].closes = 1
        /\ sessions[req[b].db[1]].closes = 1

\* C9: each HTTP request, on every endpoint, acquires one session and
\* performs one read on it between the acquisition and the release.
C9_OneSessionOneRead ==
    \A r \in Requests :
        Done(r) => (req[r].acquired = 1 /\ req[r].reads = 1)

\* Every read of request r went through the session get_db created for
\* it, while that session was open.
ReadsOnOwnOpenSession(r) ==
    req[r].reads > 0 =>
        /\ req[r].db # None
        /\ sessions[req[r].db[1]].owner = r
        /\ sessions[req[r].db[1]].readers = {r}
        /\ sessions[req[r].db[1]].stale = 0
        /\ \A s \in 1..Len(sessions) :
              s # req[r].db[1] => r \notin sessions[s].readers

\* C9, amended: a request on / acquires no session and reads nothing; a
\* request on any other endpoint acquires at most one session, and
\* exactly one when its handler runs; the handlers of the two
\* single-entity and the four list endpoints perform one read,
\* get_count performs three (fewer only when one of them raises); a
\* request rejected with 422 performs none; every read is made through
\* the request's own session between its acquisition and its release.
C9_SessionAndReads ==
    \A r \in Requests :
        /\ req[r].acquired <= 1
        /\ req[r].ep = "root" => (req[r].acquired = 0 /\ req[r].reads = 0)
        /\ req[r].resp = None => req[r].reads = 0
        /\ (req[r].resp # None /\ req[r].resp[1].status = 422) => req[r].reads = 0
        /\ (HandlerRan(r) /\ req[r].ep \in DbEndpoints) =>
              /\ req[r].acquired = 1
              /\ req[r].ep # "get_count" => req[r].reads = 1
              /\ req[r].ep = "get_count" =>
                    /\ req[r].reads \in 1..3
                    /\ req[r].resp[1].status = 200 => req[r].reads = 3
        /\ ReadsOnOwnOpenSession(r)

\* /v0/counts answered with 200 after three reads on one session.
C9_Witness ==
    \E r \in Requests :
        /\ Done(r) /\ req[r].ep = "get_count"
        /\ req[r].resp[1].status = 200
        /\ req[r].reads = 3 /\ req[r].acquired = 1
        /\ sessions[req[r].db[1]].closes = 1

\* C10: under any interleaving of concurrently handled requests each
\* request reads only through the session get_db created for it: no
\* session is used by two requests, closing one request's session never
\* closes or invalidates another's, and once every request has finished
\* no session is open.  The session factory is the only state the
\* requests share, and none modifies it.
C10_SessionIsolation ==
    /\ \A s \in 1..Len(sessions) :
          /\ sessions[s].readers \subseteq {sessions[s].owner}
          /\ sessions[s].stale = 0
    /\ \A r \in Requests :
          /\ req[r].db # None => sessions[req[r].db[1]].owner = r
          /\ req[r].pc \in {"ready", "handled"} => sessions[req[r].db[1]].open
          /\ ReadsOnOwnOpenSession(r)
    /\ \A a, b \in Requests :
          (a # b /\ req[a].db # None /\ req[b].db # None) => req[a].db # req[b].db
    /\ (\A r \in Requests : Done(r)) =>
          \A s \in 1..Len(sessions) : ~sessions[s].open
    /\ SessionLocal = SessionFactory

\* One request has ended and its session is closed while another, which
\* acquired its session earlier and has read through it, still holds its
\* session open.
C10_Witness ==
    \E a, b \in Requests :
        /\ Done(a) /\ req[a].db # None /\ req[b].db # None
        /\ req[b].db[1] < req[a].db[1]
        /\ ~sessions[req[a].db[1]].open
        /\ req[b].pc = "handled" /\ req[b].reads = 1
        /\ sessions[req[b].db[1]].open

====
